---- MODULE Spec2Model ----
(***************************************************************************)
(* Model of src/Benchmark.cpp (syang0/DiskIOBenchmark): main, the write    *)
(* sweep benchmark_write and the read sweep benchmark_read, as one         *)
(* sequential process whose library calls (posix_memalign, open, pwrite,   *)
(* write, pread, fsync, close, remove) are answered by the environment.    *)
(* Cycle counts and the floating-point columns of a row are not modelled;  *)
(* a row is the size it reports, the divisor (count) it averages by and    *)
(* the number of successful transfers made for it.                         *)
(***************************************************************************)
EXTENDS Integers, Sequences, FiniteSets, TLC

\* ------------------------------------------------------------ constants
minExp == 9
maxExp == 28
smallBigThreshold == 1000000
smallCount == 100
largeCount == 3
\* posix_memalign alignment and the mask of the read offset (512 - 1 + 1)
Align == 512
\* (1 << 20), the reference size of the read sweep's pre-populated file
RefExp == 20
\* the value exit(-1) is called with
ExitArg == -1
\* the argc from which main prints the usage text
UsageArgc == 3

\* ------------------------------------------------------------ bounds
\* argc is drawn from 1..MaxArgc
MaxArgc == 3

\* ------------------------------------------------------------ 32-bit arithmetic
\* TLC's integers are 32-bit: a 32-bit pattern is kept as its two's
\* complement value, and a sum or product is computed without ever leaving
\* that range.
MaxInt32 == 2147483647

AddFits(x, y) == x >= 0 /\ y >= 0 /\ y <= MaxInt32 - x

\* x + y modulo 2^32 on two's complement values
AddWrap32(x, y) ==
    IF x >= 0 /\ y >= 0 /\ y > MaxInt32 - x
      THEN (x - MaxInt32 - 1) + (y - MaxInt32 - 1)
      ELSE IF x < 0 /\ y < 0 /\ y < (0 - MaxInt32 - 1) - x
        THEN (x + MaxInt32 + 1) + (y + MaxInt32 + 1)
        ELSE x + y

MulFits(a, b) == a >= 0 /\ b >= 0 /\ (a = 0 \/ b <= MaxInt32 \div a)

RECURSIVE MulWrap32(_, _)
\* a * b modulo 2^32 on two's complement values, b >= 0 (shift and add)
MulWrap32(a, b) ==
    IF b = 0 THEN 0
    ELSE LET h == MulWrap32(a, b \div 2)
             d == AddWrap32(h, h)
         IN  IF b % 2 = 1 THEN AddWrap32(d, a) ELSE d

\* 1 << n on int: bit 31 is the sign bit
Shl1(n) == IF n < 31 THEN 2 ^ n ELSE 0 - MaxInt32 - 1

\* the two 16-bit halves of the uint32_t a return value is stored in
U32Halves(r) == <<(r \div 65536) % 65536, r % 65536>>

Max(a, b) == IF a >= b THEN a ELSE b
Min(a, b) == IF a <= b THEN a ELSE b

\* ------------------------------------------------------------ configuration
\* const int maxSize = 1 << maxExp (the write sweep's buffer)
maxSize == Shl1(maxExp)

\* benchmark_read's local maxSize
ReadMaxSize == Max(MulWrap32(Shl1(maxExp), largeCount),
                   MulWrap32(Shl1(RefExp), smallCount))

\* whether the two products of ReadMaxSize stay inside int
ReadMaxSizeFits == /\ MulFits(Shl1(maxExp), largeCount)
                   /\ MulFits(Shl1(RefExp), smallCount)

CountShifted(S) == IF S > 2 * smallBigThreshold THEN largeCount ELSE smallCount
\* int count = (size > smallBigThreshold) ? largeCount : smallCount
Count(S) == IF S > smallBigThreshold THEN largeCount ELSE smallCount

RepeatOnceMore(k, n) == k <= n
\* i < count, the test of the repetition loops
RepeatAgain(k, n) == k < n

SweepStopsEarly(x) == x < maxExp
\* e <= maxExp, the test of the exponent loops
SweepContinues(x) == x <= maxExp

WriteFailedOnError(S, r) == r < 0
\* writeSize != pwrite(...): uint32_t against ssize_t, compared as long
WriteFailed(S, r) == S # r

\* readSize != bytesRead, both uint32_t
ReadFailed(S, r) == U32Halves(S) # U32Halves(r)

\* exit(n): the status the parent sees
ExitCode(n) == n % 256

\* ------------------------------------------------------------ state
VARIABLES
    pc,          \* position in the program
    argc,        \* main's argc
    exitStatus,  \* <<>> while running, <<status>> once the process has ended
    usage,       \* the usage text has been printed
    bufSize,     \* size of the live buffer, 0 when none is allocated
    fileExists,  \* a file exists at the target path
    fileLen,     \* its length
    fdOpen,      \* the sweep holds an open descriptor
    e,           \* the exponent loop variable
    size,        \* writeSize / readSize
    count,       \* repetitions of the current size
    i,           \* the repetition loop variable
    filePos,     \* the offset of the next transfer
    stride,      \* filePosIncrement
    lastCall,    \* the library call made last
    callOff,     \* its file offset
    callLen,     \* its length
    ret,         \* its return value
    issued,      \* transfers issued for the current size
    okCalls,     \* of them, those that returned the full size
    syncs,       \* fsync calls since the last pwrite
    openLen,     \* the file's length when the current descriptor was opened
    rows,        \* the data rows printed
    ovf          \* some 32-bit computation left the range of int

vars == <<pc, argc, exitStatus, usage, bufSize, fileExists, fileLen, fdOpen,
          e, size, count, i, filePos, stride, lastCall, callOff, callLen, ret,
          issued, okCalls, syncs, openLen, rows, ovf>>

loopVars == <<e, size, count, i, filePos, stride>>
fsVars == <<fileExists, fileLen, fdOpen>>
histVars == <<issued, okCalls, syncs, openLen>>

\* the states the target path can be in when the program starts: absent,
\* empty, or left behind by an aborted run
InitialFiles == {<<FALSE, 0>>, <<TRUE, 0>>, <<TRUE, ReadMaxSize>>}

Init ==
    /\ pc = "main"
    /\ argc \in 1..MaxArgc
    /\ exitStatus = <<>>
    /\ usage = FALSE
    /\ bufSize = 0
    /\ \E f \in InitialFiles : fileExists = f[1] /\ fileLen = f[2]
    /\ fdOpen = FALSE
    /\ e = 0 /\ size = 0 /\ count = 0 /\ i = 0 /\ filePos = 0 /\ stride = 0
    /\ lastCall = "none" /\ callOff = 0 /\ callLen = 0 /\ ret = 0
    /\ issued = 0 /\ okCalls = 0 /\ syncs = 0 /\ openLen = 0
    /\ rows = <<>>
    /\ ovf = ~ReadMaxSizeFits

\* exit(n): the process ends; the program itself releases nothing
Exit(n) == /\ pc' = "exited"
           /\ exitStatus' = <<ExitCode(n)>>

\* what the environment may answer a transfer of S bytes with, besides S
PartialReturns(S) == {-1, 0, S \div 2}

\* ------------------------------------------------------------ main
MainUsageAt4 == argc >= UsageArgc + 1
\* if (argc >= 3)
MainRejects == argc >= UsageArgc

Main ==
    /\ pc = "main"
    /\ IF MainRejects
         THEN /\ usage' = TRUE
              /\ Exit(ExitArg)
         ELSE /\ pc' = "w_alloc"
              /\ UNCHANGED <<usage, exitStatus>>
    /\ UNCHANGED <<argc, bufSize, fsVars, loopVars, lastCall, callOff, callLen,
                   ret, histVars, rows, ovf>>

\* ------------------------------------------------------------ benchmark_write
\* posix_memalign(&buffer, 512, maxSize): 0, or an error number
WAlloc ==
    /\ pc = "w_alloc"
    /\ \E r \in {0, 12} :
         /\ ret' = r
         /\ bufSize' = IF r = 0 THEN maxSize ELSE 0
    /\ lastCall' = "memalign" /\ callOff' = 0 /\ callLen' = maxSize
    /\ pc' = "w_alloc_chk"
    /\ UNCHANGED <<argc, exitStatus, usage, fsVars, loopVars, histVars, rows, ovf>>

\* if (posix_memalign(...)) exit(-1); then e = minExp
WAllocChk ==
    /\ pc = "w_alloc_chk"
    /\ IF ret # 0
         THEN /\ Exit(ExitArg)
              /\ UNCHANGED e
         ELSE /\ e' = minExp
              /\ pc' = IF SweepContinues(minExp) THEN "w_open" ELSE "w_free"
              /\ UNCHANGED exitStatus
    /\ UNCHANGED <<argc, usage, bufSize, fsVars, size, count, i, filePos, stride,
                   lastCall, callOff, callLen, ret, histVars, rows, ovf>>

\* open(filename, O_WRONLY|O_CREAT|extraFileOps, 0666): a descriptor or -1.
\* There is no O_TRUNC: an existing file keeps its contents.
WOpen ==
    /\ pc = "w_open"
    /\ \E ok \in BOOLEAN :
         IF ok
           THEN /\ ret' = 3
                /\ fdOpen' = TRUE
                /\ fileExists' = TRUE
                /\ fileLen' = IF fileExists THEN fileLen ELSE 0
                /\ openLen' = IF fileExists THEN fileLen ELSE 0
           ELSE /\ ret' = -1
                /\ UNCHANGED <<fsVars, openLen>>
    /\ lastCall' = "open" /\ callOff' = 0 /\ callLen' = 0
    /\ pc' = "w_open_chk"
    /\ UNCHANGED <<argc, exitStatus, usage, bufSize, loopVars, issued, okCalls,
                   syncs, rows, ovf>>

\* if (-1 == outputfile) exit(-1); then the declarations of lines 86-89 and
\* the first test of the repetition loop
WOpenChk ==
    /\ pc = "w_open_chk"
    /\ IF ret = -1
         THEN /\ Exit(ExitArg)
              /\ UNCHANGED <<size, count, i, filePos, issued, okCalls, syncs>>
         ELSE /\ filePos' = 0
              /\ size' = Shl1(e)
              /\ count' = Count(Shl1(e))
              /\ i' = 0
              /\ issued' = 0 /\ okCalls' = 0 /\ syncs' = 0
              /\ pc' = IF RepeatAgain(0, Count(Shl1(e))) THEN "w_pwrite" ELSE "w_close"
              /\ UNCHANGED exitStatus
    /\ UNCHANGED <<argc, usage, bufSize, fsVars, e, stride, lastCall, callOff,
                   callLen, ret, openLen, rows, ovf>>

\* pwrite(outputfile, buffer, writeSize, filePos)
WPwrite ==
    /\ pc = "w_pwrite"
    /\ \E r \in PartialReturns(size) \cup {size} :
         /\ ret' = r
         /\ fileLen' = IF r > 0 THEN Max(fileLen, filePos + r) ELSE fileLen
         /\ okCalls' = IF r = size THEN okCalls + 1 ELSE okCalls
    /\ lastCall' = "pwrite" /\ callOff' = filePos /\ callLen' = size
    /\ issued' = issued + 1
    /\ syncs' = 0
    /\ pc' = "w_pwrite_chk"
    /\ UNCHANGED <<argc, exitStatus, usage, bufSize, fileExists, fdOpen, loopVars,
                   openLen, rows, ovf>>

\* filePos += writeSize, on uint32_t
NextFilePos(pos, S) == AddWrap32(pos, S)

\* if (writeSize != pwrite(...)) exit(-1); else filePos += writeSize
WPwriteChk ==
    /\ pc = "w_pwrite_chk"
    /\ IF WriteFailed(size, ret)
         THEN /\ Exit(ExitArg)
              /\ UNCHANGED <<filePos, ovf>>
         ELSE /\ filePos' = NextFilePos(filePos, size)
              /\ ovf' = (ovf \/ ~AddFits(filePos, size))
              /\ pc' = "w_fsync"
              /\ UNCHANGED exitStatus
    /\ UNCHANGED <<argc, usage, bufSize, fsVars, e, size, count, i, stride,
                   lastCall, callOff, callLen, ret, histVars, rows>>

\* fsync(outputfile), its result discarded; then ++i and the loop test
WFsync ==
    /\ pc = "w_fsync"
    /\ \E r \in {0, -1} : ret' = r
    /\ lastCall' = "fsync" /\ callOff' = 0 /\ callLen' = 0
    /\ syncs' = syncs + 1
    /\ i' = i + 1
    /\ pc' = IF RepeatAgain(i + 1, count) THEN "w_pwrite" ELSE "w_close"
    /\ UNCHANGED <<argc, exitStatus, usage, bufSize, fsVars, e, size, count,
                   filePos, stride, issued, okCalls, openLen, rows, ovf>>

\* close(outputfile), its result discarded; the descriptor is released
WClose ==
    /\ pc = "w_close"
    /\ \E r \in {0, -1} : ret' = r
    /\ lastCall' = "close" /\ callOff' = 0 /\ callLen' = 0
    /\ fdOpen' = FALSE
    /\ pc' = "w_remove"
    /\ UNCHANGED <<argc, exitStatus, usage, bufSize, fileExists, fileLen,
                   loopVars, histVars, rows, ovf>>

\* std::remove(filename), its result discarded
WRemove ==
    /\ pc = "w_remove"
    /\ \E r \in {0, -1} :
         /\ ret' = r
         /\ fileExists' = IF r = 0 THEN FALSE ELSE fileExists
         /\ fileLen' = IF r = 0 THEN 0 ELSE fileLen
    /\ lastCall' = "remove" /\ callOff' = 0 /\ callLen' = 0
    /\ pc' = "w_print"
    /\ UNCHANGED <<argc, exitStatus, usage, bufSize, fdOpen, loopVars, histVars,
                   rows, ovf>>

\* the row of the size just measured; then ++e and the loop test
WPrint ==
    /\ pc = "w_print"
    /\ rows' = Append(rows, [op |-> "write", size |-> size, reps |-> count,
                             done |-> okCalls])
    /\ e' = e + 1
    /\ pc' = IF SweepContinues(e + 1) THEN "w_open" ELSE "w_free"
    /\ UNCHANGED <<argc, exitStatus, usage, bufSize, fsVars, size, count, i,
                   filePos, stride, lastCall, callOff, callLen, ret, histVars, ovf>>

\* free(buffer); benchmark_write returns
WFree ==
    /\ pc = "w_free"
    /\ bufSize' = 0
    /\ pc' = "r_alloc"
    /\ UNCHANGED <<argc, exitStatus, usage, fsVars, loopVars, lastCall, callOff,
                   callLen, ret, histVars, rows, ovf>>

\* ------------------------------------------------------------ benchmark_read
\* posix_memalign(&buffer, 512, maxSize) with the local maxSize
RAlloc ==
    /\ pc = "r_alloc"
    /\ \E r \in {0, 12} :
         /\ ret' = r
         /\ bufSize' = IF r = 0 THEN ReadMaxSize ELSE 0
    /\ lastCall' = "memalign" /\ callOff' = 0 /\ callLen' = ReadMaxSize
    /\ pc' = "r_alloc_chk"
    /\ UNCHANGED <<argc, exitStatus, usage, fsVars, loopVars, histVars, rows, ovf>>

\* if (posix_memalign(...)) exit(-1)
RAllocChk ==
    /\ pc = "r_alloc_chk"
    /\ IF ret # 0
         THEN Exit(ExitArg)
         ELSE /\ pc' = "r_open"
              /\ UNCHANGED exitStatus
    /\ UNCHANGED <<argc, usage, bufSize, fsVars, loopVars, lastCall, callOff,
                   callLen, ret, histVars, rows, ovf>>

\* open(filename, O_RDWR|O_CREAT|extraFileOps, 0666)
ROpen ==
    /\ pc = "r_open"
    /\ \E ok \in BOOLEAN :
         IF ok
           THEN /\ ret' = 3
                /\ fdOpen' = TRUE
                /\ fileExists' = TRUE
                /\ fileLen' = IF fileExists THEN fileLen ELSE 0
                /\ openLen' = IF fileExists THEN fileLen ELSE 0
           ELSE /\ ret' = -1
                /\ UNCHANGED <<fsVars, openLen>>
    /\ lastCall' = "open" /\ callOff' = 0 /\ callLen' = 0
    /\ pc' = "r_open_chk"
    /\ UNCHANGED <<argc, exitStatus, usage, bufSize, loopVars, issued, okCalls,
                   syncs, rows, ovf>>

\* if (-1 == file) exit(-1)
ROpenChk ==
    /\ pc = "r_open_chk"
    /\ IF ret = -1
         THEN Exit(ExitArg)
         ELSE /\ pc' = "r_write"
              /\ UNCHANGED exitStatus
    /\ UNCHANGED <<argc, usage, bufSize, fsVars, loopVars, lastCall, callOff,
                   callLen, ret, histVars, rows, ovf>>

\* write(file, buffer, maxSize) at the descriptor's offset, 0
RWrite ==
    /\ pc = "r_write"
    /\ \E r \in PartialReturns(ReadMaxSize) \cup {ReadMaxSize} :
         /\ ret' = r
         /\ fileLen' = IF r > 0 THEN Max(fileLen, r) ELSE fileLen
    /\ lastCall' = "write" /\ callOff' = 0 /\ callLen' = ReadMaxSize
    /\ pc' = "r_write_chk"
    /\ UNCHANGED <<argc, exitStatus, usage, bufSize, fileExists, fdOpen, loopVars,
                   histVars, rows, ovf>>

\* if (maxSize != write(...)) exit(-1)
RWriteChk ==
    /\ pc = "r_write_chk"
    /\ IF ReadMaxSize # ret
         THEN Exit(ExitArg)
         ELSE /\ pc' = "r_fsync"
              /\ UNCHANGED exitStatus
    /\ UNCHANGED <<argc, usage, bufSize, fsVars, loopVars, lastCall, callOff,
                   callLen, ret, histVars, rows, ovf>>

\* fsync(file), its result discarded; then i = minExp and the loop test
RFsync ==
    /\ pc = "r_fsync"
    /\ \E r \in {0, -1} : ret' = r
    /\ lastCall' = "fsync" /\ callOff' = 0 /\ callLen' = 0
    /\ syncs' = syncs + 1
    /\ e' = minExp
    /\ pc' = IF SweepContinues(minExp) THEN "r_size" ELSE "r_close"
    /\ UNCHANGED <<argc, exitStatus, usage, bufSize, fsVars, size, count, i,
                   filePos, stride, issued, okCalls, openLen, rows, ovf>>

StrideOffByOne(T, n) == T \div (n - 1)
\* uint32_t filePosIncrement = maxSize/count
Stride(T, n) == T \div n

\* the declarations of lines 178-181 and the first test of the inner loop
RSize ==
    /\ pc = "r_size"
    /\ size' = Shl1(e)
    /\ count' = Count(Shl1(e))
    /\ stride' = Stride(ReadMaxSize, Count(Shl1(e)))
    /\ i' = 0
    /\ issued' = 0 /\ okCalls' = 0
    /\ pc' = IF RepeatAgain(0, Count(Shl1(e))) THEN "r_pread" ELSE "r_print"
    /\ UNCHANGED <<argc, exitStatus, usage, bufSize, fsVars, e, filePos, lastCall,
                   callOff, callLen, ret, syncs, openLen, rows, ovf>>

MaskNone(x) == x
\* x & ~(512 - 1): the low nine bits cleared
MaskAlign(x) == x - (x % Align)

\* int filePos = (i*filePosIncrement) & ~(512 - 1)
ReadOffset(k, inc) == MaskAlign(MulWrap32(inc, k))

\* the bytes a read of S at off can get before the end of a file of len bytes
EofAvail(len, off, S) == Min(S, Max(0, len - off))

\* what pread may return: an error, a short count, or all the file holds
ReadReturns(len, off, S) ==
    IF off < 0 THEN {-1}
    ELSE {-1, Min(S \div 2, EofAvail(len, off, S)), EofAvail(len, off, S)}

\* filePos is computed, then pread(file, buffer, readSize, filePos)
RPread ==
    /\ pc = "r_pread"
    /\ filePos' = ReadOffset(i, stride)
    /\ ovf' = (ovf \/ ~MulFits(stride, i))
    /\ \E r \in ReadReturns(fileLen, ReadOffset(i, stride), size) :
         /\ ret' = r
         /\ okCalls' = IF r = size THEN okCalls + 1 ELSE okCalls
    /\ lastCall' = "pread" /\ callOff' = ReadOffset(i, stride) /\ callLen' = size
    /\ issued' = issued + 1
    /\ pc' = "r_pread_chk"
    /\ UNCHANGED <<argc, exitStatus, usage, bufSize, fsVars, e, size, count, i,
                   stride, syncs, openLen, rows>>

\* uint32_t bytesRead = pread(...); if (readSize != bytesRead) exit(-1);
\* then ++i and the loop test
RPreadChk ==
    /\ pc = "r_pread_chk"
    /\ IF ReadFailed(size, ret)
         THEN /\ Exit(ExitArg)
              /\ UNCHANGED i
         ELSE /\ i' = i + 1
              /\ pc' = IF RepeatAgain(i + 1, count) THEN "r_pread" ELSE "r_print"
              /\ UNCHANGED exitStatus
    /\ UNCHANGED <<argc, usage, bufSize, fsVars, e, size, count, filePos, stride,
                   lastCall, callOff, callLen, ret, histVars, rows, ovf>>

\* the row of the size just measured; then ++i (the exponent) and the loop test
RPrint ==
    /\ pc = "r_print"
    /\ rows' = Append(rows, [op |-> "read", size |-> size, reps |-> count,
                             done |-> okCalls])
    /\ e' = e + 1
    /\ pc' = IF SweepContinues(e + 1) THEN "r_size" ELSE "r_close"
    /\ UNCHANGED <<argc, exitStatus, usage, bufSize, fsVars, size, count, i,
                   filePos, stride, lastCall, callOff, callLen, ret, histVars, ovf>>

\* close(file), its result discarded
RClose ==
    /\ pc = "r_close"
    /\ \E r \in {0, -1} : ret' = r
    /\ lastCall' = "close" /\ callOff' = 0 /\ callLen' = 0
    /\ fdOpen' = FALSE
    /\ pc' = "r_remove"
    /\ UNCHANGED <<argc, exitStatus, usage, bufSize, fileExists, fileLen,
                   loopVars, histVars, rows, ovf>>

\* std::remove(filename), its result discarded
RRemove ==
    /\ pc = "r_remove"
    /\ \E r \in {0, -1} :
         /\ ret' = r
         /\ fileExists' = IF r = 0 THEN FALSE ELSE fileExists
         /\ fileLen' = IF r = 0 THEN 0 ELSE fileLen
    /\ lastCall' = "remove" /\ callOff' = 0 /\ callLen' = 0
    /\ pc' = "r_free"
    /\ UNCHANGED <<argc, exitStatus, usage, bufSize, fdOpen, loopVars, histVars,
                   rows, ovf>>

\* free(buffer); benchmark_read returns, and main returns 0
RFree ==
    /\ pc = "r_free"
    /\ bufSize' = 0
    /\ pc' = "done"
    /\ exitStatus' = <<0>>
    /\ UNCHANGED <<argc, usage, fsVars, loopVars, lastCall, callOff, callLen, ret,
                   histVars, rows, ovf>>

Next == \/ Main
        \/ WAlloc \/ WAllocChk \/ WOpen \/ WOpenChk \/ WPwrite \/ WPwriteChk
        \/ WFsync \/ WClose \/ WRemove \/ WPrint \/ WFree
        \/ RAlloc \/ RAllocChk \/ ROpen \/ ROpenChk \/ RWrite \/ RWriteChk
        \/ RFsync \/ RSize \/ RPread \/ RPreadChk \/ RPrint \/ RClose
        \/ RRemove \/ RFree

Spec == Init /\ [][Next]_vars

\* ------------------------------------------------------------ properties
\* the repetition count as the specification words it
SpecCount(S) == IF S < smallBigThreshold THEN smallCount ELSE largeCount

\* the size of the pre-populated file as the specification words it
PrepopSize == Max((2 ^ maxExp) * largeCount, (2 ^ RefExp) * smallCount)

SweptSizes == {2 ^ x : x \in minExp..maxExp}

NumSizes == maxExp - minExp + 1

\* the repetition loop of the current size has run to its end
SizeFinished == pc \in {"w_close", "w_remove", "w_print", "r_print"}

\* the rows a completed sweep prints
SweepRows(op) ==
    [k \in 1..NumSizes |->
        [op |-> op, size |-> 2 ^ (minExp + k - 1),
         reps |-> SpecCount(2 ^ (minExp + k - 1)),
         done |-> SpecCount(2 ^ (minExp + k - 1))]]

AllRows == SweepRows("write") \o SweepRows("read")

\* C1: a size whose repetition loop has ended was transferred count(S) times,
\* every call of length S returning S; after a pwrite or pread that returned
\* anything else the process is at the test of that result or has exited.
C1_ExactTransfers ==
    /\ SizeFinished =>
         /\ size \in SweptSizes
         /\ issued = SpecCount(size)
         /\ okCalls = issued
    /\ pc \in {"w_pwrite_chk", "r_pread_chk"} =>
         /\ callLen = size
         /\ size \in SweptSizes
         /\ issued <= SpecCount(size)
    /\ (lastCall \in {"pwrite", "pread"} /\ ret # callLen) =>
         pc \in {"w_pwrite_chk", "r_pread_chk", "exited"}

C1_Witness ==
    /\ pc = "w_print"
    /\ size = 2 ^ maxExp
    /\ issued = largeCount
    /\ okCalls = largeCount

\* C2: in either sweep the count in use is smallCount for a size below the
\* threshold and largeCount for a size at or above it, whatever came before.
C2_CountBySize ==
    pc \in {"w_pwrite", "w_pwrite_chk", "w_fsync", "w_close", "w_remove",
            "w_print", "r_pread", "r_pread_chk", "r_print"} =>
        /\ size = 2 ^ e
        /\ count = SpecCount(size)

C2_Witness ==
    /\ pc = "r_pread"
    /\ size = 2 ^ RefExp
    /\ size >= smallBigThreshold
    /\ count = largeCount
    /\ Len(rows) > NumSizes

\* C3: every read offset is i * (T div count) rounded down to a multiple of
\* 512, lies in 0..T - S, and the read range lies inside the file.
C3_ReadOffsets ==
    pc = "r_pread_chk" =>
        /\ i \in 0..(SpecCount(size) - 1)
        /\ callOff = ((i * (PrepopSize \div SpecCount(size))) \div 512) * 512
        /\ 0 <= callOff
        /\ callOff <= PrepopSize - size
        /\ callOff + size <= fileLen
        /\ EofAvail(fileLen, callOff, size) = size

C3_Witness ==
    /\ pc = "r_pread_chk"
    /\ size = 2 ^ maxExp
    /\ i = largeCount - 1
    /\ callOff = PrepopSize - size
    /\ ret = size

\* C4 as claimed: after a normal completion no file exists at the path, and
\* every open of the write sweep creates an empty file.
C4_NoFileLeftBehind ==
    /\ pc = "done" => ~fileExists
    /\ (pc = "w_open_chk" /\ ret # -1) => openLen = 0

\* C5: with argc >= 3 the program prints the usage text and exits non-zero
\* having made no library call and holding no buffer; with argc <= 2 it never
\* prints the usage text.
C5_UsageExit ==
    /\ (argc >= 3 /\ pc # "main") =>
         /\ usage
         /\ pc = "exited"
         /\ Len(exitStatus) = 1 /\ exitStatus[1] # 0
         /\ lastCall = "none"
         /\ bufSize = 0
         /\ ~fdOpen
         /\ rows = <<>>
    /\ argc <= 2 => ~usage

C5_Witness ==
    /\ argc = 3
    /\ usage
    /\ pc = "exited"

\* a call whose failure the specification names fatal has just failed
FatalFailure ==
    \/ lastCall = "memalign" /\ ret # 0
    \/ lastCall = "open" /\ ret = -1
    \/ lastCall \in {"pwrite", "write", "pread"} /\ ret # callLen

\* C6: after a failed allocation, open, write or read the only step is the
\* exit with a non-zero status: no call is made, none is repeated, no row is
\* printed, and the size under way has no row.
C6_FatalImmediate ==
    [][/\ pc # "exited"
       /\ FatalFailure =>
            /\ pc' = "exited"
            /\ Len(exitStatus') = 1 /\ exitStatus'[1] # 0
            /\ rows' = rows
            /\ <<lastCall, callOff, callLen, ret, issued, syncs>>'
                 = <<lastCall, callOff, callLen, ret, issued, syncs>>
            /\ <<fileExists, fileLen, fdOpen>>' = <<fileExists, fileLen, fdOpen>>
            /\ lastCall \in {"pwrite", "pread"} =>
                 \A k \in 1..Len(rows) :
                    ~(rows[k].size = size
                      /\ rows[k].op = IF lastCall = "pwrite" THEN "write" ELSE "read")
      ]_vars

C6_Witness ==
    /\ pc = "exited"
    /\ lastCall = "pread"
    /\ ret = size \div 2
    /\ exitStatus = <<255>>

\* an I/O call has just returned something other than success
UnexpectedResult ==
    \/ lastCall = "open" /\ ret = -1
    \/ lastCall \in {"pwrite", "write", "pread"} /\ ret # callLen
    \/ lastCall \in {"fsync", "close", "remove"} /\ ret # 0

\* C7 as claimed: the program ends either with both sweeps complete or at the
\* first unexpected I/O result; after such a result it is at the test of the
\* result or has exited, and measures and prints nothing more.
C7_AbortsOnFirstUnexpected ==
    /\ pc = "done" => rows = AllRows
    /\ UnexpectedResult =>
         pc \in {"w_open_chk", "w_pwrite_chk", "r_open_chk", "r_write_chk",
                 "r_pread_chk", "exited"}

\* C8: the rows printed are always the first rows of the write sweep's rows
\* followed by the read sweep's, one per size in increasing order, each
\* carrying count(S) successful repetitions; a completed write sweep has
\* printed all of its rows and a completed run all rows of both.
C8_RowsInOrder ==
    /\ Len(rows) <= 2 * NumSizes
    /\ \A k \in 1..Len(rows) : rows[k] = AllRows[k]
    /\ pc \in {"w_free", "r_alloc", "r_alloc_chk", "r_open", "r_open_chk",
               "r_write", "r_write_chk", "r_fsync"} => Len(rows) = NumSizes
    /\ pc \in {"r_close", "r_remove", "r_free", "done"} => Len(rows) = 2 * NumSizes

C8_Witness ==
    /\ pc = "done"
    /\ Len(rows) = 2 * NumSizes
    /\ rows[1].size = 512 /\ rows[1].reps = smallCount
    /\ rows[2].size = 1024 /\ rows[2].done = smallCount

\* the offsets and syncs of one size of the write sweep
C9_WriteOffsets ==
    /\ pc = "w_pwrite_chk" =>
         /\ issued = i + 1
         /\ callOff = i * size
         /\ callLen = size
    /\ pc = "w_fsync" => syncs = 0
    /\ (pc = "w_pwrite" /\ i > 0) => syncs = 1
    /\ pc \in {"w_close", "w_remove"} => syncs = 1

\* C9 as claimed: the k-th write of a size is at k*S, one sync follows each
\* write, and the file is count(S)*S long when it is closed.
C9_LengthAtClose ==
    /\ C9_WriteOffsets
    /\ pc = "w_remove" => fileLen = SpecCount(size) * size

\* C10: no computation leaves the range of its type, every transfer length
\* and offset is a multiple of 512, and no transfer is longer than the buffer.
C10_RangesAndAlignment ==
    /\ ~ovf
    /\ ReadMaxSize = PrepopSize
    /\ PrepopSize <= MaxInt32
    /\ 0 <= filePos /\ filePos <= MaxInt32
    /\ 0 <= stride /\ stride <= MaxInt32
    /\ pc \in {"w_pwrite", "w_fsync", "w_close"} => filePos = okCalls * size
    /\ pc = "r_pread_chk" =>
         /\ i * stride <= MaxInt32
         /\ filePos = callOff
    /\ lastCall \in {"pwrite", "write", "pread"} =>
         /\ callLen % 512 = 0
         /\ callOff % 512 = 0
         /\ callOff >= 0
         /\ callLen > 0
         /\ callLen <= bufSize

C10_Witness ==
    /\ pc = "r_pread_chk"
    /\ size = 2 ^ 19
    /\ i = smallCount - 1
    /\ callOff = 797253120
    /\ ~ovf

====
